---- MODULE Spec2Model ----
(***************************************************************************)
(* Model of the grading pipeline of backend/services/codeExecution.js:     *)
(* validateCode, prepareTestFile, the generated Python driver (run_tests), *)
(* executeCode with its exec callback, and runCode.                        *)
(*                                                                         *)
(* Representation.                                                         *)
(*  - A submission (JS string `code`) is a sequence of one-character       *)
(*    strings, so that split, trim, startsWith and join are computed.      *)
(*  - Every other text (stdout, stderr, error messages) is a sequence of   *)
(*    tokens [t, s, n]; stdout is the token sequence of the JSON document  *)
(*    printed by the driver (or whatever else the process printed), and    *)
(*    JSON.parse is a parser over these tokens.                            *)
(*  - JS/Python values are tagged records: [k |-> "null"], [k |-> "bool",  *)
(*    b], [k |-> "num", n], [k |-> "str", s], [k |-> "arr", items],        *)
(*    [k |-> "obj", f] with f a record keyed by the property names.        *)
(*  - A function that may throw returns either [ok |-> TRUE, ...] or       *)
(*    [ok |-> FALSE, message |-> text] (the thrown Error).                 *)
(***************************************************************************)
EXTENDS Integers, Sequences, FiniteSets, TLC

VARIABLES
    run,        \* run[u]: one runCode call, identified by its uuid u
    fs,         \* TEMP_DIR: path (uuid) -> content of the file that exists there
    env,        \* the most recent completed call: its argument and what the
                \* file system and the child process did during it
    vin,        \* validation harness: the submission handed to validateCode
    vout,       \* validation harness: what validateCode returned
    gin,        \* grading harness: what the exec callback is handed
    gout        \* grading harness: the Verdict the callback resolved

vars == <<run, fs, env, vin, vout, gin, gout>>

----------------------------------------------------------------------------
(* Bounds of the model.                                                    *)

\* Number of runCode calls made in one behaviour of Spec.
MaxCalls == 2
\* Longest submission, in lines, drawn by the validation harness.
MaxLines == 3

----------------------------------------------------------------------------
\* F(e) with e evaluated once: `const v = e; ... v ... v ...`.
Once(e, F(_)) == CHOOSE r \in { F(v) : v \in {e} } : TRUE

----------------------------------------------------------------------------
(* JS string primitives over character sequences.                          *)

WhiteSpace == {" ", "\t", "\r", "\n"}

RECURSIVE TrimStart(_)
TrimStart(s) ==
    IF s # <<>> /\ Head(s) \in WhiteSpace THEN TrimStart(Tail(s)) ELSE s

RECURSIVE TrimEnd(_)
TrimEnd(s) ==
    IF s # <<>> /\ s[Len(s)] \in WhiteSpace
    THEN TrimEnd(SubSeq(s, 1, Len(s) - 1))
    ELSE s

\* String.prototype.trim
Trim(s) == TrimEnd(TrimStart(s))

\* String.prototype.startsWith
StartsWith(s, p) == Len(s) >= Len(p) /\ SubSeq(s, 1, Len(p)) = p

\* Position of the first "\n" of s, 0 when there is none.
FirstNewline(s) ==
    IF \E i \in 1..Len(s) : s[i] = "\n"
    THEN CHOOSE i \in 1..Len(s) : s[i] = "\n" /\ \A j \in 1..(i - 1) : s[j] # "\n"
    ELSE 0

\* code.split('\n')
RECURSIVE SplitLines(_)
SplitLines(s) ==
    LET i == FirstNewline(s)
    IN  IF i = 0
        THEN <<s>>
        ELSE <<SubSeq(s, 1, i - 1)>> \o SplitLines(SubSeq(s, i + 1, Len(s)))

\* lines.join('\n')
RECURSIVE JoinLines(_)
JoinLines(lines) ==
    IF lines = <<>> THEN <<>>
    ELSE IF Len(lines) = 1 THEN lines[1]
    ELSE lines[1] \o <<"\n">> \o JoinLines(Tail(lines))

----------------------------------------------------------------------------
(* Texts other than submissions: sequences of tokens.                      *)

Tok(t, s, n) == [t |-> t, s |-> s, n |-> n]
\* A JS string made of one literal piece; the empty string is <<>>.
Txt(s) == IF s = "" THEN <<>> ELSE <<Tok("text", s, 0)>>

----------------------------------------------------------------------------
(* validateCode                                                            *)

DefTwoSum == <<"d","e","f"," ","t","w","o","_","s","u","m">>
PassLine ==
    <<" "," "," "," ","p","a","s","s"," "," ","#"," ","A","d","d","e","d",
      " ","a","u","t","o","m","a","t","i","c","a","l","l","y">>
NoFunctionFound ==
    Txt("No two_sum function found. Please define a function named two_sum(nums, target).")
EmptyMessage ==
    Txt("Your function appears to be empty. A pass statement has been added to make it valid.")

\* lines.findIndex(line => line.trim().startsWith('def two_sum')), 1-based;
\* 0 stands for JS's -1.
FunctionLineIndex(lines) ==
    IF \E i \in 1..Len(lines) : StartsWith(Trim(lines[i]), DefTwoSum)
    THEN CHOOSE i \in 1..Len(lines) :
            /\ StartsWith(Trim(lines[i]), DefTwoSum)
            /\ \A j \in 1..(i - 1) : ~StartsWith(Trim(lines[j]), DefTwoSum)
    ELSE 0

IsIndented(line) == StartsWith(line, <<" ">>) \/ StartsWith(line, <<"\t">>)

\* The loop of lines 32-46, from line i on: TRUE when it sets hasImplementation.
RECURSIVE ScanBody(_, _)
ScanBody(lines, i) ==
    IF i > Len(lines) THEN FALSE
    ELSE LET line == Trim(lines[i])
         IN  IF IsIndented(lines[i])
             THEN IF line # <<>> /\ ~StartsWith(line, <<"#">>)
                  THEN TRUE
                  ELSE ScanBody(lines, i + 1)
             ELSE IF line # <<>>
                  THEN FALSE
                  ELSE ScanBody(lines, i + 1)

HasImplementation(lines, functionLineIndex) == ScanBody(lines, functionLineIndex + 1)

\* lines.splice(at, 0, item) with `at` the 0-based JS index = number of lines before.
Splice(lines, before, item) ==
    SubSeq(lines, 1, before) \o <<item>> \o SubSeq(lines, before + 1, Len(lines))

validateCode(code) ==
    LET lines == SplitLines(code)
        functionLineIndex == FunctionLineIndex(lines)
    IN  IF functionLineIndex = 0
        THEN [valid |-> FALSE, error |-> NoFunctionFound]
        ELSE IF ~HasImplementation(lines, functionLineIndex)
        THEN [valid |-> TRUE,
              modifiedCode |-> JoinLines(Splice(lines, functionLineIndex, PassLine)),
              message |-> EmptyMessage]
        ELSE [valid |-> TRUE, modifiedCode |-> code]

----------------------------------------------------------------------------
(* The external interpreter's view of a submission: Python's block         *)
(* structure.  The interpreter is not part of the repository; this is the  *)
(* part of its grammar that the inserted pass statement depends on.  A     *)
(* logical line is one that is neither blank nor a comment; a line ending  *)
(* in ":" opens a block whose first logical line must be indented deeper;  *)
(* any other logical line must sit at an indentation that is still open.   *)

Indent(line) == Len(line) - Len(TrimStart(line))
IsLogical(line) == Trim(line) # <<>> /\ ~StartsWith(Trim(line), <<"#">>)
OpensBlock(line) == LET t == Trim(line) IN t # <<>> /\ t[Len(t)] = ":"

RECURSIVE PyBlocks(_, _, _, _)
PyBlocks(lines, i, stack, prevOpens) ==
    IF i > Len(lines) THEN ~prevOpens
    ELSE IF ~IsLogical(lines[i]) THEN PyBlocks(lines, i + 1, stack, prevOpens)
    ELSE LET ind == Indent(lines[i])
             top == stack[Len(stack)]
             open == { stack[j] : j \in 1..Len(stack) }
             popped == SelectSeq(stack, LAMBDA x : x <= ind)
         IN  IF prevOpens
             THEN /\ ind > top
                  /\ PyBlocks(lines, i + 1, Append(stack, ind), OpensBlock(lines[i]))
             ELSE /\ ind \in open
                  /\ PyBlocks(lines, i + 1, popped, OpensBlock(lines[i]))

\* Whether python accepts the harness built around `code` (the driver that
\* follows the submission starts at column 0 and is itself well formed).
PySyntaxOK(code) == PyBlocks(SplitLines(code), 1, <<0>>, FALSE)

----------------------------------------------------------------------------
(* JS values and property access.                                          *)

Null == [k |-> "null"]
Undefined == [k |-> "undefined"]
Bool(b) == [k |-> "bool", b |-> b]
Num(n) == [k |-> "num", n |-> n]
\* s is a text (token sequence); the empty string is Str(<<>>).
Str(s) == [k |-> "str", s |-> s]
Arr(items) == [k |-> "arr", items |-> items]
\* props: the sequence of [key, val] pairs in source order.
Obj(props) == [k |-> "obj", props |-> props]
Pair(key, val) == [key |-> key, val |-> val]

\* A value returned, or an Error thrown with this message.
Return(v) == [ok |-> TRUE, val |-> v]
Throw(message) == [ok |-> FALSE, message |-> message]

\* ToBoolean, as `a || b`, `a && b` and `if (a)` apply it.
Truthy(v) ==
    CASE v.k = "null" -> FALSE
      [] v.k = "undefined" -> FALSE
      [] v.k = "bool" -> v.b
      [] v.k = "num" -> v.n # 0
      [] v.k = "str" -> v.s # <<>>
      [] OTHER -> TRUE

\* obj[key] of a plain object: the last pair with that key wins.
RECURSIVE Lookup(_, _)
Lookup(props, key) ==
    IF props = <<>> THEN Undefined
    ELSE LET last == props[Len(props)]
         IN  IF last.key = key THEN last.val
             ELSE Lookup(SubSeq(props, 1, Len(props) - 1), key)

\* v[key] / v.key; reading a property of null or undefined throws a TypeError.
\* The only property of a string, number or boolean the code could read is
\* length, which matters for arrays and objects alone (see FirstError).
GetProp(v, key) ==
    CASE v.k \in {"null", "undefined"} ->
            Throw(Txt("Cannot read properties of null or undefined"))
      [] v.k = "obj" -> Return(Lookup(v.props, key))
      [] v.k = "arr" ->
            IF key = "length" THEN Return(Num(Len(v.items)))
            ELSE IF key = "0" /\ Len(v.items) >= 1 THEN Return(v.items[1])
            ELSE Return(Undefined)
      [] OTHER -> Return(Undefined)

----------------------------------------------------------------------------
(* JSON documents as token sequences, and JSON.parse.                      *)

LBrack == Tok("[", "", 0)
RBrack == Tok("]", "", 0)
LBrace == Tok("{", "", 0)
RBrace == Tok("}", "", 0)
Comma == Tok(",", "", 0)
Colon == Tok(":", "", 0)
Newline == Tok("nl", "", 0)
JStr(s) == Tok("str", s, 0)
JNum(n) == Tok("num", "", n)
JTrue == Tok("true", "", 0)
JFalse == Tok("false", "", 0)
JNull == Tok("null", "", 0)

ParseFail == [ok |-> FALSE]
Parsed(v, rest) == [ok |-> TRUE, val |-> v, rest |-> rest]

RECURSIVE ParseValue(_)
RECURSIVE ParseElements(_, _)
RECURSIVE ParseMembers(_, _)

ParseValue(ts) ==
    IF ts = <<>> THEN ParseFail
    ELSE LET h == Head(ts)
             r == Tail(ts)
         IN  CASE h.t = "null" -> Parsed(Null, r)
               [] h.t = "true" -> Parsed(Bool(TRUE), r)
               [] h.t = "false" -> Parsed(Bool(FALSE), r)
               [] h.t = "num" -> Parsed(Num(h.n), r)
               [] h.t = "str" -> Parsed(Str(Txt(h.s)), r)
               [] h.t = "[" ->
                    IF r # <<>> /\ Head(r).t = "]"
                    THEN Parsed(Arr(<<>>), Tail(r))
                    ELSE ParseElements(r, <<>>)
               [] h.t = "{" ->
                    IF r # <<>> /\ Head(r).t = "}"
                    THEN Parsed(Obj(<<>>), Tail(r))
                    ELSE ParseMembers(r, <<>>)
               [] OTHER -> ParseFail

\* value ("," value)* "]"
ParseElements(ts, acc) ==
    Once(ParseValue(ts), LAMBDA v :
        IF ~v.ok \/ v.rest = <<>> THEN ParseFail
        ELSE IF Head(v.rest).t = ","
        THEN ParseElements(Tail(v.rest), Append(acc, v.val))
        ELSE IF Head(v.rest).t = "]"
        THEN Parsed(Arr(Append(acc, v.val)), Tail(v.rest))
        ELSE ParseFail)

\* string ":" value ("," string ":" value)* "}"
ParseMembers(ts, acc) ==
    IF Len(ts) < 2 \/ ts[1].t # "str" \/ ts[2].t # ":" THEN ParseFail
    ELSE Once(ParseValue(SubSeq(ts, 3, Len(ts))), LAMBDA v :
            IF ~v.ok \/ v.rest = <<>> THEN ParseFail
            ELSE IF Head(v.rest).t = ","
            THEN ParseMembers(Tail(v.rest), Append(acc, Pair(ts[1].s, v.val)))
            ELSE IF Head(v.rest).t = "}"
            THEN Parsed(Obj(Append(acc, Pair(ts[1].s, v.val))), Tail(v.rest))
            ELSE ParseFail)

SyntaxErrorMessage == Txt("Unexpected token in JSON")

\* JSON.parse(stdout): one value, white space allowed around it, or a SyntaxError.
JSONParse(text) ==
    Once(ParseValue(SelectSeq(text, LAMBDA tk : tk.t # "nl")), LAMBDA p :
        IF p.ok /\ p.rest = <<>> THEN Return(p.val) ELSE Throw(SyntaxErrorMessage))

----------------------------------------------------------------------------
(* The generated driver (run_tests) and Python's json.dumps.               *)

\* Python values of the driver: [py |-> "str", s], "bool", "num", "list", "dict".
PyStr(s) == [py |-> "str", s |-> s]
PyBool(b) == [py |-> "bool", b |-> b]
PyNum(n) == [py |-> "num", n |-> n]
PyList(items) == [py |-> "list", items |-> items]
PyDict(props) == [py |-> "dict", props |-> props]

RECURSIVE Dumps(_)
RECURSIVE DumpItems(_)
RECURSIVE DumpProps(_)

\* json.dumps(v)
Dumps(v) ==
    CASE v.py = "str" -> <<JStr(v.s)>>
      [] v.py = "bool" -> IF v.b THEN <<JTrue>> ELSE <<JFalse>>
      [] v.py = "num" -> <<JNum(v.n)>>
      [] v.py = "list" -> <<LBrack>> \o DumpItems(v.items) \o <<RBrack>>
      [] v.py = "dict" -> <<LBrace>> \o DumpProps(v.props) \o <<RBrace>>

DumpItems(items) ==
    IF items = <<>> THEN <<>>
    ELSE IF Len(items) = 1 THEN Dumps(items[1])
    ELSE Dumps(items[1]) \o <<Comma>> \o DumpItems(Tail(items))

DumpProps(props) ==
    IF props = <<>> THEN <<>>
    ELSE LET one == <<JStr(props[1].key), Colon>> \o Dumps(props[1].val)
         IN  IF Len(props) = 1 THEN one
             ELSE one \o <<Comma>> \o DumpProps(Tail(props))

NumCases == 3

\* const testCases, as the driver text spells them out.
TestCases ==
    << [input |-> "[2, 7, 11, 15], 9", output |-> "[0, 1]"],
       [input |-> "[3, 2, 4], 6", output |-> "[1, 2]"],
       [input |-> "[3, 3], 6", output |-> "[0, 1]"] >>

\* What two_sum does when called for one case: it returns a value whose str()
\* is s after t time units, or raises an Exception whose str() is s.
Returns(s, t) == [kind |-> "ret", s |-> s, t |-> t]
Raises(s) == [kind |-> "raise", s |-> s, t |-> 0]

\* The dict appended after case i.
CaseRecord(i, b) ==
    PyDict(<< Pair("case", PyNum(i)),
              Pair("input", PyStr(TestCases[i].input)),
              Pair("expected", PyStr(TestCases[i].output)),
              Pair("actual", PyStr(b.s)),
              Pair("passed", PyBool(b.s = TestCases[i].output)),
              Pair("execution_time", PyNum(b.t)) >>)

\* except Exception as e: results.append({"error": str(e)})
ErrorRecord(s) == PyDict(<< Pair("error", PyStr(s)) >>)

\* The try block from case i on, with the results appended so far.
RECURSIVE RunCases(_, _, _)
RunCases(cases, i, results) ==
    IF i > NumCases THEN results
    ELSE IF cases[i].kind = "raise" THEN Append(results, ErrorRecord(cases[i].s))
    ELSE RunCases(cases, i + 1, Append(results, CaseRecord(i, cases[i])))

run_tests(cases) == PyList(RunCases(cases, 1, <<>>))

\* print(json.dumps(run_tests()))
DriverStdout(cases) == Dumps(run_tests(cases)) \o <<Newline>>

----------------------------------------------------------------------------
(* executeCode: the body of the exec callback.                             *)

\* The `error` argument of the callback: null, or an Error with a message.
NoError == [present |-> FALSE, message |-> <<>>]
ExecError(message) == [present |-> TRUE, message |-> message]

\* A failure Verdict that also hands back what was parsed.
FailureWithResults(error) == [success |-> FALSE, error |-> error, testResults |-> error]

\* { success: false, error }
Failure(error) == [success |-> FALSE, error |-> error]

\* results.length === 1 && results[0].error: the value of the && expression.
\* For a string, number or boolean the right operand is undefined whenever it
\* is evaluated, so the expression is falsy either way.
FirstError(results) ==
    Once(GetProp(results, "length"), LAMBDA len :
        IF ~len.ok THEN len
        ELSE IF ~(len.val.k = "num" /\ len.val.n = 1) THEN Return(Bool(FALSE))
        ELSE GetProp(GetProp(results, "0").val, "error"))

\* A flag test that honours the boolean only.
IsPassedBooleanOnly(v) == v.k = "bool" /\ v.b

\* result.passed === "True" || result.passed === true
IsPassed(v) == (v.k = "str" /\ v.s = Txt("True")) \/ (v.k = "bool" /\ v.b)

\* results.every(result => ...) from item i on; every stops at the first false.
RECURSIVE Every(_, _)
Every(items, i) ==
    IF i > Len(items) THEN Return(TRUE)
    ELSE Once(GetProp(items[i], "passed"), LAMBDA p :
            IF ~p.ok THEN p
            ELSE IF IsPassed(p.val) THEN Every(items, i + 1)
            ELSE Return(FALSE))

\* acc + (curr.execution_time || 0): a number while both operands are numbers
\* (true counts 1); anything else makes the sum a string.
Plus(acc, term) ==
    IF acc.num /\ term.k = "num" THEN [num |-> TRUE, n |-> acc.n + term.n]
    ELSE IF acc.num /\ term.k = "bool" THEN [num |-> TRUE, n |-> acc.n + 1]
    ELSE [num |-> FALSE, n |-> 0]

\* results.reduce((acc, curr) => acc + (curr.execution_time || 0), 0)
RECURSIVE Reduce(_, _, _)
Reduce(items, i, acc) ==
    IF i > Len(items) THEN Return(acc)
    ELSE Once(GetProp(items[i], "execution_time"), LAMBDA e :
            IF ~e.ok THEN e
            ELSE Reduce(items, i + 1,
                        Plus(acc, IF Truthy(e.val) THEN e.val ELSE Num(0))))

\* total.toFixed(4) followed by `${totalTime}s`; a string has no toFixed.
\* Times are whole units in the model: the token fixed/4/n is n with 4 decimals.
ExecutionTime(total) ==
    IF total.num
    THEN Return(<<Tok("fixed", "4", total.n)>> \o Txt("s"))
    ELSE Throw(Txt("toFixed is not a function"))

AllPassedOutput == Txt("All test cases passed!")
SomeFailedOutput == Txt("Some test cases failed.")

\* A response built without the `if (message)` step.
ResponseWithoutMessage(allPassed, results, executionTime, message) ==
    [success |-> allPassed,
     output |-> IF allPassed THEN AllPassedOutput ELSE SomeFailedOutput,
     testResults |-> results,
     executionTime |-> executionTime]

\* const response = {...}; if (message) response.message = message
Response(allPassed, results, executionTime, message) ==
    IF Truthy(message)
    THEN [success |-> allPassed,
          output |-> IF allPassed THEN AllPassedOutput ELSE SomeFailedOutput,
          testResults |-> results,
          executionTime |-> executionTime,
          message |-> message]
    ELSE [success |-> allPassed,
          output |-> IF allPassed THEN AllPassedOutput ELSE SomeFailedOutput,
          testResults |-> results,
          executionTime |-> executionTime]

\* After JSON.parse (lines 204-227): the Verdict resolved, or what is thrown.
Aggregate(results, message) ==
    Once(FirstError(results), LAMBDA err :
        IF ~err.ok THEN err
        ELSE IF Truthy(err.val) THEN Return(Failure(err.val))
        ELSE IF results.k # "arr"
        THEN Throw(Txt("results.every is not a function"))
        ELSE Once(Every(results.items, 1), LAMBDA allPassed :
            IF ~allPassed.ok THEN allPassed
            ELSE Once(Reduce(results.items, 1, [num |-> TRUE, n |-> 0]), LAMBDA total :
                IF ~total.ok THEN total
                ELSE Once(ExecutionTime(total.val), LAMBDA time :
                    IF ~time.ok THEN time
                    ELSE Return(Response(allPassed.val, results, time.val, message))))))

\* The inner try block (lines 201-227): the Verdict it resolves, or what it throws.
InnerTry(stdout, message) ==
    Once(JSONParse(stdout), LAMBDA parsed :
        IF ~parsed.ok THEN parsed ELSE Aggregate(parsed.val, message))

ParsePrefix == Txt("Failed to parse Python output: ")
RawPrefix == Txt("\nRaw output: ")

\* catch (parseError) (lines 228-234)
ParseFailure(reason, stdout) ==
    Failure(Str(ParsePrefix \o reason \o RawPrefix \o stdout))

Interpret(stdout, message) ==
    Once(InnerTry(stdout, message), LAMBDA r :
        IF r.ok THEN r.val ELSE ParseFailure(r.message, stdout))

CleanupPrefix == Txt("Failed to process execution results: ")

\* The outer try block (lines 189-241).  `unlink` is what fs.unlinkSync did:
\* Return(..) when it removed the file, Throw(message) when it threw.
ExecCallback(error, stdout, stderr, unlink, message) ==
    IF ~unlink.ok
    THEN Failure(Str(CleanupPrefix \o unlink.message))
    ELSE IF error.present
    THEN Failure(Str(IF stderr # <<>> THEN stderr ELSE error.message))
    ELSE Interpret(stdout, message)

\* TEMP_DIR holding no temp file.
NoFiles == <<>>

\* A cleanup that empties TEMP_DIR instead of removing the one file.
UnlinkedAll(files, filePath, unlink) ==
    IF unlink.ok THEN NoFiles ELSE files

\* TEMP_DIR after fs.unlinkSync(filePath) with that outcome.
Unlinked(files, filePath, unlink) ==
    IF unlink.ok
    THEN [p \in (DOMAIN files) \ {filePath} |-> files[p]]
    ELSE files

----------------------------------------------------------------------------
(* prepareTestFile and runCode.                                            *)

\* The argument of runCode: a JS string, or a value that is not a string.
CodeString(chars) == [isString |-> TRUE, chars |-> chars]
NotAString == [isString |-> FALSE, chars |-> <<>>]

\* The content of a temp file: the validated submission followed by the driver;
\* a write that fails midway leaves a truncated file.
Harness(validatedCode) == [submission |-> validatedCode, driver |-> TRUE]
Truncated == [submission |-> <<>>, driver |-> FALSE]

\* What fs.writeFileSync can do: write the file; fail without creating it
\* (EACCES, ENOENT); fail after creating it (ENOSPC).
WriteOutcomes == {"ok", "EACCES", "ENOSPC"}

\* A prepareTestFile that writes the file before it validates the submission.
prepareTestFileWriteFirst(uuid, code, write) ==
    IF ~code.isString
    THEN [r |-> Throw(Txt("code.split is not a function")),
          made |-> FALSE, path |-> uuid, file |-> Truncated]
    ELSE LET validation == validateCode(code.chars)
         IN  IF write # "ok"
             THEN [r |-> Throw(Txt(write)),
                   made |-> (write = "ENOSPC"), path |-> uuid, file |-> Truncated]
             ELSE IF ~validation.valid
             THEN [r |-> Throw(validation.error), made |-> TRUE, path |-> uuid,
                   file |-> Harness(code.chars)]
             ELSE [r |-> Return([filePath |-> uuid,
                                 message |-> IF "message" \in DOMAIN validation
                                             THEN Str(validation.message)
                                             ELSE Undefined]),
                   made |-> TRUE, path |-> uuid, file |-> Harness(validation.modifiedCode)]

\* A prepareTestFile that names every temp file alike instead of by uuid.
prepareTestFileFixedName(uuid, code, write) ==
    IF ~code.isString
    THEN [r |-> Throw(Txt("code.split is not a function")),
          made |-> FALSE, path |-> 1, file |-> Truncated]
    ELSE LET validation == validateCode(code.chars)
         IN  IF ~validation.valid
             THEN [r |-> Throw(validation.error), made |-> FALSE, path |-> 1,
                   file |-> Truncated]
             ELSE IF write = "ok"
             THEN [r |-> Return([filePath |-> 1,
                                 message |-> IF "message" \in DOMAIN validation
                                             THEN Str(validation.message)
                                             ELSE Undefined]),
                   made |-> TRUE, path |-> 1, file |-> Harness(validation.modifiedCode)]
             ELSE [r |-> Throw(Txt(write)),
                   made |-> (write = "ENOSPC"), path |-> 1, file |-> Truncated]

\* prepareTestFile(code) with the uuid drawn and the outcome of writeFileSync:
\* r is the value returned or the Error thrown; path is filePath and file is
\* what the call left there (made TRUE when it created a file there).
prepareTestFile(uuid, code, write) ==
    IF ~code.isString
    THEN [r |-> Throw(Txt("code.split is not a function")),
          made |-> FALSE, path |-> uuid, file |-> Truncated]
    ELSE LET validation == validateCode(code.chars)
         IN  IF ~validation.valid
             THEN [r |-> Throw(validation.error), made |-> FALSE, path |-> uuid,
                   file |-> Truncated]
             ELSE IF write = "ok"
             THEN [r |-> Return([filePath |-> uuid,
                                 message |-> IF "message" \in DOMAIN validation
                                             THEN Str(validation.message)
                                             ELSE Undefined]),
                   made |-> TRUE, path |-> uuid, file |-> Harness(validation.modifiedCode)]
             ELSE [r |-> Throw(Txt(write)),
                   made |-> (write = "ENOSPC"), path |-> uuid, file |-> Truncated]

\* TEMP_DIR after prepareTestFile wrote to filePath.
Written(files, filePath, prepared) ==
    IF prepared.made
    THEN [p \in (DOMAIN files) \cup {filePath} |->
            IF p = filePath THEN prepared.file ELSE files[p]]
    ELSE files

\* What python finds at filePath; a path with no file is, like an incomplete
\* file, something python cannot run.
FileAt(files, filePath) ==
    IF filePath \in DOMAIN files THEN files[filePath] ELSE Truncated

\* executeCode's default parameter: message = null.
DefaultNull(message) == IF message.k = "undefined" THEN Null ELSE message

ExecutePrefix == Txt("Failed to execute code: ")

\* A runCode without its try/catch: what is thrown reaches the caller.
runCodeNoCatch(r) == r

\* runCode's try/catch around prepareTestFile and the awaited promise: a value
\* is returned as it is, an Error becomes a failure Verdict.
runCodeCatch(r) ==
    IF r.ok THEN r ELSE Return(Failure(Str(ExecutePrefix \o r.message)))

----------------------------------------------------------------------------
(* The external process: what `python "<filePath>"` can do.                *)

\* One behaviour of the launched process.
\*   nolaunch: the interpreter cannot be started (exec reports an error);
\*   driver:   the submission loads and run_tests runs, two_sum behaving as
\*             `cases` says for each test case;
\*   raw:      code of the submission prints `stdout` itself and ends the
\*             process with status 0 before the driver prints;
\*   crash:    the process exits non-zero having printed `stdout`, `stderr`.
Beh(kind, cases, stdout, stderr) ==
    [kind |-> kind, cases |-> cases, stdout |-> stdout, stderr |-> stderr]

NotFound == Txt("python: not found")
SyntaxErr == Txt("SyntaxError: invalid syntax")
\* error.message as exec builds it: "Command failed: " + cmd + "\n" + stderr.
CommandFailed(stderr) == Txt("Command failed: python") \o stderr

ProcResult(error, stdout, stderr) ==
    [error |-> error, stdout |-> stdout, stderr |-> stderr]
NoProc == ProcResult(NoError, <<>>, <<>>)

\* (error, stdout, stderr) handed to the callback when python ran `file`.
PythonProcess(file, b) ==
    IF b.kind = "nolaunch"
    THEN ProcResult(ExecError(CommandFailed(NotFound)), <<>>, NotFound)
    ELSE IF ~file.driver \/ ~PySyntaxOK(file.submission)
    THEN ProcResult(ExecError(CommandFailed(SyntaxErr)), <<>>, SyntaxErr)
    ELSE IF b.kind = "driver"
    THEN ProcResult(NoError, DriverStdout(b.cases), <<>>)
    ELSE IF b.kind = "raw"
    THEN ProcResult(NoError, b.stdout, <<>>)
    ELSE ProcResult(ExecError(CommandFailed(b.stderr)), b.stdout, b.stderr)

\* What two_sum may do on case i: the expected answer, a wrong one, an
\* exception with a message, an exception without one (raise Exception()).
CaseBehaviours(i) ==
    { Returns(TestCases[i].output, i - 1), Returns("None", i),
      Raises("boom"), Raises("") }

CaseCombos ==
    { c \in [1..NumCases -> UNION { CaseBehaviours(i) : i \in 1..NumCases }] :
        \A i \in 1..NumCases : c[i] \in CaseBehaviours(i) }

NoCases == [i \in 1..NumCases |-> Raises("")]

DriverBehaviours == { Beh("driver", c, <<>>, <<>>) : c \in CaseCombos }

\* {"passed": flag}
FlagRecord(flag) == <<LBrace, JStr("passed")>> \o <<Colon>> \o flag \o <<RBrace>>
PassedRecord == FlagRecord(<<JTrue>>)

\* Documents a process can print that the driver itself never prints.
RawStdouts ==
    { <<>>,                                                  \* nothing
      <<Tok("text", "debug", 0), Newline, LBrack, RBrack>>,  \* a print, then []
      <<LBrack, LBrace, JStr("passed")>>,                    \* cut short
      <<LBrack, RBrack, Newline>>,                           \* []
      <<JNum(5)>>,                                           \* 5
      <<JNull>>,                                             \* null
      <<JStr("abc")>>,                                       \* "abc"
      <<LBrace, RBrace>>,                                    \* {}
      \* {"length": 1, "0": {"error": "boom"}}
      <<LBrace, JStr("length"), Colon, JNum(1), Comma, JStr("0"), Colon,
        LBrace, JStr("error"), Colon, JStr("boom"), RBrace, RBrace>>,
      <<LBrack>> \o FlagRecord(<<JStr("True")>>) \o <<RBrack>>,
      <<LBrack>> \o FlagRecord(<<JStr("true")>>) \o <<RBrack>>,
      <<LBrack>> \o FlagRecord(<<JNum(1)>>) \o <<RBrack>>,
      <<LBrack, LBrace, JStr("case"), Colon, JNum(1), RBrace, RBrack>>,
      <<LBrack, JNull, RBrack>>,                             \* [null]
      <<LBrack>> \o PassedRecord \o <<Comma, JNull, RBrack>>,
      <<LBrack, JFalse, Comma, JNull, RBrack>>,
      \* [{"passed": true, "execution_time": "1"}]
      <<LBrack, LBrace, JStr("passed"), Colon, JTrue, Comma,
        JStr("execution_time"), Colon, JStr("1"), RBrace, RBrack>>,
      <<LBrack, LBrace, JStr("error"), Colon, JNum(1), RBrace, RBrack>>,
      <<LBrack>> \o PassedRecord \o <<Comma>> \o PassedRecord \o <<RBrack>> }

RawBehaviours == { Beh("raw", NoCases, out, <<>>) : out \in RawStdouts }

CrashBehaviours ==
    { Beh("crash", NoCases, <<>>, Txt("Traceback: NameError")),
      Beh("crash", NoCases, <<>>, <<>>),
      Beh("crash", NoCases, <<LBrack, RBrack, Newline>>, <<>>),
      Beh("crash", NoCases, <<LBrack>> \o PassedRecord \o <<RBrack>>,
          Txt("Traceback: KeyboardInterrupt")) }

NoLaunch == Beh("nolaunch", NoCases, <<>>, <<>>)

Behaviours == DriverBehaviours \cup RawBehaviours \cup CrashBehaviours \cup {NoLaunch}

\* What fs.unlinkSync can do: remove the file, or throw.
UnlinkOutcomes == {"ok", "EPERM"}
UnlinkSync(outcome) == IF outcome = "ok" THEN Return(Undefined) ELSE Throw(Txt(outcome))

\* What exec can do when called: start the child, or throw synchronously.
SpawnOutcomes == {"ok", "ENOMEM"}

----------------------------------------------------------------------------
(* Submissions drawn by the model.                                         *)

LDef       == <<"d","e","f"," ","t","w","o","_","s","u","m","(","a",","," ","b",")",":">>
LDefInline == <<"d","e","f"," ","t","w","o","_","s","u","m","(","a",","," ","b",")",":"," ","r","e","t","u","r","n"," ","a">>
LDefV2     == <<"d","e","f"," ","t","w","o","_","s","u","m","_","v","2","(","a",","," ","b",")",":">>
LDefOneArg == <<"d","e","f"," ","t","w","o","_","s","u","m","(","a",")",":">>
LDefSolve  == <<"d","e","f"," ","s","o","l","v","e","(","a",","," ","b",")",":">>
LReturn    == <<" "," "," "," ","r","e","t","u","r","n"," ","a">>
LComment   == <<" "," "," "," ","#"," ","t","o","d","o">>
LTabComment == <<"\t","#"," ","t","o","d","o">>
LBlank     == <<>>
LTop       == <<"x"," ","="," ","1">>
LDefNested == <<" "," "," "," ","d","e","f"," ","t","w","o","_","s","u","m","(","a",","," ","b",")",":">>
LOuter     == <<"d","e","f"," ","g","(",")",":">>
LComment8  == <<" "," "," "," "," "," "," "," ","#"," ","t","o","d","o">>

LineCatalog ==
    { LDef, LDefInline, LDefV2, LDefOneArg, LDefSolve, LReturn, LComment,
      LTabComment, LBlank, LTop, LDefNested, LOuter, LComment8 }

\* Every text of 1..n lines of the catalog.
Submissions(n) ==
    UNION { { JoinLines(ls) : ls \in [1..k -> LineCatalog] } : k \in 1..n }

----------------------------------------------------------------------------
(* State shared by the specifications.                                     *)

Pending == [done |-> FALSE]

Uuids == 1..MaxCalls

\* A runCode call: not made yet ("idle"), suspended at `await` until the exec
\* callback runs ("awaiting", its child process "running" or "exited"), or
\* completed ("done").
Idle == [pc |-> "idle", code |-> NotAString, filePath |-> 0, message |-> Null,
         proc |-> "none"]
Done == [Idle EXCEPT !.pc = "done"]
Awaiting(code, filePath, message) ==
    [pc |-> "awaiting", code |-> code, filePath |-> filePath, message |-> message,
     proc |-> "running"]

PipelineIdle ==
    run = [u \in Uuids |-> Idle] /\ fs = NoFiles /\ env = Pending
ValidateIdle == vin = <<>> /\ vout = Pending
GradeIdle == gin = Pending /\ gout = Pending

----------------------------------------------------------------------------
(* The pipeline: concurrent runCode calls.                                 *)

\* Submissions and process behaviours the pipeline draws.
MainCodes ==
    { NotAString,
      CodeString(LTop),                                  \* no two_sum
      CodeString(JoinLines(<<LDef, LComment>>)),         \* empty body
      CodeString(JoinLines(<<LDef, LReturn>>)),          \* an implementation
      CodeString(LDefInline) }                           \* body on the def line

MainBehaviours ==
    { NoLaunch,
      Beh("crash", NoCases, <<>>, <<>>),
      Beh("raw", NoCases, <<>>, <<>>),
      Beh("driver", [i \in 1..NumCases |-> Returns(TestCases[i].output, 1)], <<>>, <<>>),
      Beh("driver", [i \in 1..NumCases |->
                        IF i = 2 THEN Raises("boom") ELSE Returns(TestCases[i].output, 1)],
          <<>>, <<>>) }

Init == PipelineIdle /\ ValidateIdle /\ GradeIdle

\* What a completed call leaves behind: its argument, whether it created a
\* file and launched a process, the Error that ended it before the await (if
\* any), and what the callback was handed: the message and the file of the
\* call, the behaviour of the process and the outcome of unlinkSync.
Environment(u, code, made, launched, thrown, message, file, beh, unlink) ==
    [done |-> TRUE, call |-> u, code |-> code, made |-> made, launched |-> launched,
     thrown |-> thrown, message |-> message, file |-> file, beh |-> beh,
     unlink |-> unlink]

\* runCode(code) up to its await: prepareTestFile, then executeCode calls exec.
\* uuidv4 is modelled as handing out identifiers never used before.
RunCode(u) ==
    /\ run[u].pc = "idle"
    /\ \A v \in 1..(u - 1) : run[v].pc # "idle"
    /\ \E code \in MainCodes, write \in WriteOutcomes, spawn \in SpawnOutcomes :
        \E prepared \in {prepareTestFile(u, code, write)} :
            /\ fs' = Written(fs, prepared.path, prepared)
            /\ IF prepared.r.ok /\ spawn = "ok"
               THEN /\ run' = [run EXCEPT ![u] =
                                Awaiting(code, prepared.r.val.filePath,
                                         DefaultNull(prepared.r.val.message))]
                    /\ UNCHANGED env
               ELSE /\ run' = [run EXCEPT ![u] = Done]
                    /\ env' = Environment(u, code, prepared.made, FALSE,
                                          IF prepared.r.ok THEN Throw(Txt(spawn))
                                                           ELSE prepared.r,
                                          Null, Truncated, NoLaunch, "none")
    /\ UNCHANGED <<vin, vout, gin, gout>>

\* The child process of call u terminates (nothing bounds how long it runs).
ProcessExit(u) ==
    /\ run[u].pc = "awaiting" /\ run[u].proc = "running"
    /\ run' = [run EXCEPT ![u].proc = "exited"]
    /\ UNCHANGED <<fs, env, vin, vout, gin, gout>>

\* An exec callback that does not wait for the child process to terminate.
CallbackBeforeExit(u) ==
    /\ run[u].pc = "awaiting"
    /\ run' = [run EXCEPT ![u] = Done]
    /\ \E b \in MainBehaviours, outcome \in UnlinkOutcomes :
        /\ env' = Environment(u, run[u].code, TRUE, TRUE, Throw(<<>>), run[u].message,
                              FileAt(fs, run[u].filePath), b, outcome)
        /\ fs' = Unlinked(fs, run[u].filePath, UnlinkSync(outcome))
    /\ UNCHANGED <<vin, vout, gin, gout>>

\* The exec callback of call u runs with what the process of behaviour b
\* produced, unlinkSync doing `outcome`; the promise resolves and runCode
\* returns (see `returned` for the value).
Callback(u) ==
    /\ run[u].pc = "awaiting" /\ run[u].proc = "exited"
    /\ run' = [run EXCEPT ![u] = Done]
    /\ \E b \in MainBehaviours, outcome \in UnlinkOutcomes :
        /\ env' = Environment(u, run[u].code, TRUE, TRUE, Throw(<<>>), run[u].message,
                              FileAt(fs, run[u].filePath), b, outcome)
        /\ fs' = Unlinked(fs, run[u].filePath, UnlinkSync(outcome))
    /\ UNCHANGED <<vin, vout, gin, gout>>

\* What the most recent completed call gave its caller: the settled promise of
\* runCode (outcome), with what exec handed the callback (proc).
Completed(outcome, proc) == [done |-> TRUE, outcome |-> outcome, proc |-> proc]

returned ==
    IF ~env.done THEN Pending
    ELSE IF ~env.launched THEN Completed(runCodeCatch(env.thrown), NoProc)
    ELSE Once(PythonProcess(env.file, env.beh), LAMBDA p :
            Completed(runCodeCatch(Return(ExecCallback(p.error, p.stdout, p.stderr,
                                                       UnlinkSync(env.unlink),
                                                       env.message))),
                      p))

Next == \E u \in Uuids : RunCode(u) \/ ProcessExit(u) \/ Callback(u)

Spec == Init /\ [][Next]_vars

\* Node's event loop runs the callback of a terminated child; nothing makes a
\* child terminate.
FairSpec == Spec /\ \A u \in Uuids : WF_vars(Callback(u))

----------------------------------------------------------------------------
(* Validation harness: validateCode applied to every drawn submission.     *)

InitValidate ==
    /\ vin \in Submissions(MaxLines)
    /\ vout = Pending
    /\ PipelineIdle /\ GradeIdle

Validate ==
    /\ vout = Pending
    /\ vout' = [done |-> TRUE, r |-> validateCode(vin)]
    /\ UNCHANGED <<vin, run, fs, env, gin, gout>>

NextValidate == Validate

SpecValidate == InitValidate /\ [][NextValidate]_vars

----------------------------------------------------------------------------
(* Grading harness: one valid temp file run under every process behaviour, *)
(* and the exec callback applied to what the process produced.             *)

GoodHarness == Harness(JoinLines(<<LDef, LReturn>>))

InitGrade ==
    /\ gin \in { [stage |-> "running", beh |-> b, unlink |-> o, message |-> m,
                  proc |-> NoProc] :
                 b \in Behaviours, o \in UnlinkOutcomes, m \in {Null, Str(EmptyMessage)} }
    /\ gout = Pending
    /\ PipelineIdle /\ ValidateIdle

ProcessRuns ==
    /\ gin.stage = "running"
    /\ gin' = [gin EXCEPT !.stage = "exited", !.proc = PythonProcess(GoodHarness, gin.beh)]
    /\ UNCHANGED <<gout, run, fs, env, vin, vout>>

Grade ==
    /\ gin.stage = "exited"
    /\ gin' = [gin EXCEPT !.stage = "called"]
    /\ gout' = [done |-> TRUE,
                verdict |-> ExecCallback(gin.proc.error, gin.proc.stdout, gin.proc.stderr,
                                         UnlinkSync(gin.unlink), gin.message)]
    /\ UNCHANGED <<run, fs, env, vin, vout>>

NextGrade == ProcessRuns \/ Grade

SpecGrade == InitGrade /\ [][NextGrade]_vars

----------------------------------------------------------------------------
(* Properties.                                                             *)

\* text contains piece as a contiguous part.
Contains(text, piece) ==
    \E i \in 0..(Len(text) - Len(piece)) : SubSeq(text, i + 1, i + Len(piece)) = piece

HasError(verdict) == "error" \in DOMAIN verdict
HasResults(verdict) == "testResults" \in DOMAIN verdict

\* C1: once a runCode call has completed, whatever its outcome, the temp file
\* of that call is no longer in the scratch directory.
C1_NoTempFileLeft ==
    \A u \in Uuids : run[u].pc = "done" => u \notin DOMAIN fs

\* A failure at some stage of the completed call: it ended before a process
\* was launched (validation, write or launch threw), the cleanup threw, the
\* process reported an error, or parsing/aggregating stdout threw.
C2_StageFailed ==
    \/ ~env.launched
    \/ env.unlink # "ok"
    \/ returned.proc.error.present
    \/ ~InnerTry(returned.proc.stdout, Null).ok

C2_AlwaysAVerdict ==
    returned.done =>
        /\ returned.outcome.ok
        /\ C2_StageFailed =>
              /\ returned.outcome.val.success = FALSE
              /\ HasError(returned.outcome.val)
              /\ Truthy(returned.outcome.val.error)

\* C2: runCode never rejects: every completed call settled with a Verdict, a
\* failure at any stage gives success = false with a populated error, and a
\* call whose process has terminated eventually completes.
C2_NeverThrows ==
    /\ []C2_AlwaysAVerdict
    /\ \A u \in Uuids : (run[u].proc = "exited") ~> (run[u].pc = "done")

\* A call whose process was launched and whose cleanup then failed has
\* completed with a failure Verdict.
C2_Witness ==
    /\ returned.done /\ env.launched
    /\ env.unlink # "ok"
    /\ returned.outcome.ok /\ returned.outcome.val.success = FALSE

C3_ValidationFailed ==
    env.done /\ env.code.isString /\ ~validateCode(env.code.chars).valid

\* C3: a call whose validation failed returns success = false with the
\* validation message in its error, launched no process and wrote no file.
C3_ValidationShortCircuits ==
    C3_ValidationFailed =>
        /\ returned.outcome.ok
        /\ returned.outcome.val.success = FALSE
        /\ HasError(returned.outcome.val)
        /\ returned.outcome.val.error.k = "str"
        /\ Contains(returned.outcome.val.error.s, NoFunctionFound)
        /\ ~env.launched
        /\ ~env.made
        /\ env.call \notin DOMAIN fs

C3_Witness == C3_ValidationFailed /\ ~env.launched

----------------------------------------------------------------------------
(* Properties of the exec callback (SpecGrade).                            *)

\* The callback has run on a process that reported no error.
ProcessSucceeded == gout.done /\ ~gin.proc.error.present

\* A CaseOutcome record as parsed: an object that is not an error record and
\* whose execution_time, when present, is a number.
IsCaseOutcome(item) ==
    /\ item.k = "obj"
    /\ Lookup(item.props, "error").k = "undefined"
    /\ Lookup(item.props, "execution_time").k \in {"undefined", "num"}

\* stdout parses as a list of CaseOutcome records.
IsOutcomeList(stdout) ==
    /\ JSONParse(stdout).ok
    /\ JSONParse(stdout).val.k = "arr"
    /\ \A i \in 1..Len(JSONParse(stdout).val.items) :
            IsCaseOutcome(JSONParse(stdout).val.items[i])

\* The passed flag of a record is the boolean true or the string "True".
FlagIsTrue(item) ==
    LET flag == Lookup(item.props, "passed")
    IN  \/ flag.k = "bool" /\ flag.b
        \/ flag.k = "str" /\ flag.s = Txt("True")

\* The Verdict aggregates the parsed list: success = allPassed, the output
\* that goes with it, and the list itself as testResults.
AggregatesList(verdict, stdout) ==
    LET outcomes == JSONParse(stdout).val
        allPassed == \A i \in 1..Len(outcomes.items) : FlagIsTrue(outcomes.items[i])
    IN  /\ verdict.success = allPassed
        /\ "output" \in DOMAIN verdict
        /\ verdict.output = (IF allPassed THEN Txt("All test cases passed!")
                                          ELSE Txt("Some test cases failed."))
        /\ HasResults(verdict)
        /\ verdict.testResults = outcomes

\* C4 as stated: whenever the process exits without error and stdout parses as
\* a list of CaseOutcome records, the Verdict has success = allPassed (every
\* flag the boolean true or the string "True"), the matching output, and the
\* parsed list as testResults.
C4_AsStated ==
    (ProcessSucceeded /\ IsOutcomeList(gin.proc.stdout)) =>
        AggregatesList(gout.verdict, gin.proc.stdout)

\* C4, amended: when the process exits without error, the temp file is deleted
\* without error and stdout parses as a list of CaseOutcome records, the
\* Verdict has success = allPassed (every flag the boolean true or the string
\* "True"), the matching output, and the parsed list as testResults.
C4_AggregatesOutcomes ==
    (ProcessSucceeded /\ gin.unlink = "ok" /\ IsOutcomeList(gin.proc.stdout)) =>
        AggregatesList(gout.verdict, gin.proc.stdout)

\* Scenario 3: a wrong answer on case 2 only gives success = false with three
\* results, the second alone not passed.
C4_Witness ==
    /\ ProcessSucceeded /\ gin.unlink = "ok" /\ gin.beh.kind = "driver"
    /\ \A i \in 1..NumCases :
            /\ gin.beh.cases[i].kind = "ret"
            /\ (gin.beh.cases[i].s = TestCases[i].output) <=> (i # 2)
    /\ gout.verdict.success = FALSE
    /\ HasResults(gout.verdict)
    /\ Len(gout.verdict.testResults.items) = 3
    /\ \A i \in 1..3 : FlagIsTrue(gout.verdict.testResults.items[i]) <=> (i # 2)

\* The first test case on which two_sum raises, 0 when it raises on none.
FirstRaise(cases) ==
    IF \E i \in 1..NumCases : cases[i].kind = "raise"
    THEN CHOOSE i \in 1..NumCases :
            /\ cases[i].kind = "raise"
            /\ \A j \in 1..(i - 1) : cases[j].kind # "raise"
    ELSE 0

\* C5: if two_sum raises during any test case, the driver emits a
\* single-element error record containing the exception text, and the Verdict
\* is a failure whose error equals that text and which carries no testResults.
\* (Stated for runs whose cleanup succeeded.)
C5_HarnessException ==
    (gout.done /\ gin.unlink = "ok" /\ gin.beh.kind = "driver"
        /\ FirstRaise(gin.beh.cases) # 0) =>
        LET text == Txt(gin.beh.cases[FirstRaise(gin.beh.cases)].s)
        IN  /\ JSONParse(gin.proc.stdout).ok
            /\ JSONParse(gin.proc.stdout).val = Arr(<<Obj(<<Pair("error", Str(text))>>)>>)
            /\ gout.verdict.success = FALSE
            /\ HasError(gout.verdict)
            /\ gout.verdict.error = Str(text)
            /\ ~HasResults(gout.verdict)

\* The execution failure as it is to be reported: stderr when it is non-empty,
\* otherwise the description of the process error.
ExecutionFailure == IF gin.proc.stderr # <<>> THEN gin.proc.stderr ELSE gin.proc.error.message

\* C6: if the process reports an error, the Verdict is success = false with
\* error equal to stderr when non-empty and otherwise the process error
\* description, with no testResults, whatever stdout contains.
C6_ProcessError ==
    (gout.done /\ gin.proc.error.present) =>
        /\ gout.verdict.success = FALSE
        /\ HasError(gout.verdict)
        /\ gout.verdict.error = Str(ExecutionFailure)
        /\ ~HasResults(gout.verdict)

\* C7: when the process has reported an error and deleting the temp file
\* fails too, the Verdict's error still reports the execution failure.
C7_CleanupDoesNotMask ==
    (gout.done /\ gin.proc.error.present /\ gin.unlink # "ok") =>
        /\ gout.verdict.success = FALSE
        /\ HasError(gout.verdict)
        /\ gout.verdict.error.k = "str"
        /\ Contains(gout.verdict.error.s, ExecutionFailure)

\* stdout is not a well-formed outcome list: not JSON, or JSON but not a list.
IsMalformed(stdout) == ~JSONParse(stdout).ok \/ JSONParse(stdout).val.k # "arr"

\* C8: when the process exits without error but stdout is not valid JSON, or
\* is JSON that is not a list, the Verdict is success = false with an error
\* made of a parse failure reason and the raw stdout, and no testResults.
\* (Stated for runs whose cleanup succeeded.)
C8_ParseFailure ==
    (ProcessSucceeded /\ gin.unlink = "ok" /\ IsMalformed(gin.proc.stdout)) =>
        /\ gout.verdict.success = FALSE
        /\ HasError(gout.verdict)
        /\ gout.verdict.error.k = "str"
        /\ Contains(gout.verdict.error.s, gin.proc.stdout)
        /\ Len(gout.verdict.error.s) > Len(gin.proc.stdout)
        /\ ~HasResults(gout.verdict)

----------------------------------------------------------------------------
(* Properties of validateCode (SpecValidate).                              *)

\* The submission has a two_sum definition line (as validateCode finds it)
\* with no non-blank, non-comment statement in the indented lines after it.
EmptyBody(code) ==
    /\ FunctionLineIndex(SplitLines(code)) # 0
    /\ ~HasImplementation(SplitLines(code), FunctionLineIndex(SplitLines(code)))

\* The submission with a no-op statement placed as the first statement of the
\* body of two_sum, one level deeper than the definition line.
WithNoOp(code) ==
    LET lines == SplitLines(code)
        at == FunctionLineIndex(lines)
    IN  JoinLines(Splice(lines, at,
            [k \in 1..(Indent(lines[at]) + 4) |-> " "] \o <<"p","a","s","s">>))

\* The submission can stay (or be made) syntactically valid: it is valid as
\* submitted, or lacks nothing but a statement in the body of two_sum.
Repairable(code) == PySyntaxOK(code) \/ PySyntaxOK(WithNoOp(code))

\* C9: for every submission whose two_sum has no statement in its indented
\* body, validation succeeds, a no-op statement is inserted immediately after
\* the definition line, an informational message is attached, and the
\* resulting program is syntactically valid (wherever the submission was
\* valid, or was made invalid by the empty body alone).
C9_EmptyBodyRepaired ==
    (vout.done /\ EmptyBody(vin)) =>
        /\ vout.r.valid
        /\ "message" \in DOMAIN vout.r
        /\ LET before == SplitLines(vin)
               after == SplitLines(vout.r.modifiedCode)
               at == FunctionLineIndex(before)
           IN  /\ Len(after) = Len(before) + 1
               /\ SubSeq(after, 1, at) = SubSeq(before, 1, at)
               /\ Trim(after[at + 1]) # <<>>
               /\ SubSeq(after, at + 2, Len(after)) = SubSeq(before, at + 1, Len(before))
        /\ Repairable(vin) => PySyntaxOK(vout.r.modifiedCode)

\* The line, leading white space ignored, begins a definition of a function
\* named exactly two_sum that takes two parameters.
IsRequiredDef(line) ==
    LET t == TrimStart(line)
        open == Len(DefTwoSum) + 1
    IN  /\ StartsWith(t, DefTwoSum \o <<"(">>)
        /\ \E close \in (open + 1)..Len(t) :
            /\ t[close] = ")"
            /\ \A j \in (open + 1)..(close - 1) : t[j] # ")"
            /\ Cardinality({ j \in (open + 1)..(close - 1) : t[j] = "," }) = 1

DefinesRequired(code) ==
    \E i \in 1..Len(SplitLines(code)) : IsRequiredDef(SplitLines(code)[i])

\* C10: validation accepts a submission only if some line begins a definition
\* of a function named exactly two_sum with two parameters; every other
\* submission yields the NoFunctionFound validation error.
C10_ExactDefinitionRequired ==
    (vout.done /\ ~DefinesRequired(vin)) =>
        /\ ~vout.r.valid
        /\ vout.r.error = NoFunctionFound

----------------------------------------------------------------------------
(* Properties of concurrent runs (Spec).                                   *)

\* Run u is in flight: its file is written and its exec callback has not run.
InFlight(u) == run[u].pc = "awaiting"

\* No two in-flight runs share a path; the file at the path of an in-flight
\* run exists and is the harness of that run's own submission; TEMP_DIR never
\* holds more files than runs were started.
RunsIsolated ==
    /\ \A u, v \in Uuids :
        (InFlight(u) /\ InFlight(v) /\ u # v) => run[u].filePath # run[v].filePath
    /\ \A u \in Uuids :
        InFlight(u) =>
            /\ run[u].filePath \in DOMAIN fs
            /\ fs[run[u].filePath] = Harness(validateCode(run[u].code.chars).modifiedCode)
    /\ Cardinality(DOMAIN fs) <= Cardinality({ u \in Uuids : run[u].pc # "idle" })

\* A step removes no file but that of the run whose callback it is.
DeletesOwnFileOnly ==
    \A p \in DOMAIN fs :
        p \notin DOMAIN fs' =>
            \E u \in Uuids : InFlight(u) /\ run[u].filePath = p /\ run'[u].pc = "done"

\* C11: under any interleaving of concurrent runCode calls, no two in-flight
\* runs use the same temp-file path, each run has at most one temp file, each
\* run executes and deletes only its own file, and the cleanup of one run
\* never removes the file of another run still in flight (uuids being unique).
C11_ConcurrentRunsIsolated == []RunsIsolated /\ [][DeletesOwnFileOnly]_vars

\* Two runs are in flight at once, the process of one already terminated.
C11_Witness ==
    /\ InFlight(1) /\ InFlight(2)
    /\ run[1].proc = "exited" /\ run[2].proc = "running"
    /\ run[1].filePath # run[2].filePath
    /\ {run[1].filePath, run[2].filePath} \subseteq DOMAIN fs

----------------------------------------------------------------------------
(* Properties of the Verdict of a completed call (Spec).                   *)

\* validateCode attached its informational message to the submission.
MessageAttached(code) ==
    /\ code.isString
    /\ validateCode(code.chars).valid
    /\ "message" \in DOMAIN validateCode(code.chars)

\* C12: when validateCode attached an informational message and the run gives
\* a normal parsed result, the Verdict carries exactly that message; when no
\* message was attached, the Verdict has no message field.
C12_MessageForwarded ==
    returned.done =>
        IF MessageAttached(env.code)
        THEN HasResults(returned.outcome.val) =>
                /\ "message" \in DOMAIN returned.outcome.val
                /\ returned.outcome.val.message = Str(validateCode(env.code.chars).message)
        ELSE "message" \notin DOMAIN returned.outcome.val

\* An empty-bodied submission has been graded to a normal result with the
\* message on it.
C12_Witness ==
    /\ returned.done /\ env.launched /\ MessageAttached(env.code)
    /\ HasResults(returned.outcome.val)
    /\ "message" \in DOMAIN returned.outcome.val

\* The Verdict of a call made in a system that has run nothing before: the
\* submission is validated and written, the process behaves as beh says, and
\* unlinkSync does `unlink`.
FreshVerdict(code, beh, unlink) ==
    Once(prepareTestFile(1, code, "ok"), LAMBDA prepared :
        Once(PythonProcess(prepared.file, beh), LAMBDA p :
            ExecCallback(p.error, p.stdout, p.stderr, UnlinkSync(unlink),
                         DefaultNull(prepared.r.val.message))))

\* A test result without its timing field.
WithoutTiming(item) ==
    IF item.k = "obj"
    THEN Obj(SelectSeq(item.props, LAMBDA pr : pr.key # "execution_time"))
    ELSE item

\* Two Verdicts agree on success and on testResults, timing fields apart.
SameGrade(a, b) ==
    /\ a.success = b.success
    /\ HasResults(a) <=> HasResults(b)
    /\ HasResults(a) =>
        /\ a.testResults.k = b.testResults.k
        /\ a.testResults.k = "arr" =>
            /\ Len(a.testResults.items) = Len(b.testResults.items)
            /\ \A i \in 1..Len(a.testResults.items) :
                WithoutTiming(a.testResults.items[i]) = WithoutTiming(b.testResults.items[i])

\* C13 as stated: the grade of a call is determined by the submission text and
\* the behaviour of the process alone: it is the grade of any other call with
\* that submission and that process behaviour, here one made in a fresh system
\* whose cleanup succeeds.
C13_AsStated ==
    (returned.done /\ env.launched) =>
        SameGrade(returned.outcome.val, FreshVerdict(env.code, env.beh, "ok"))

\* C13, amended: two calls with identical submission text, the same process
\* behaviour and the same outcome of deleting the temp file have the same
\* success and testResults (timing apart), whatever ran before or in between:
\* the grade of a call is the one the same call gets in a fresh system.
C13_Stateless ==
    (returned.done /\ env.launched) =>
        SameGrade(returned.outcome.val, FreshVerdict(env.code, env.beh, env.unlink))

\* The second of two calls has been graded to a normal result while a file
\* of the first is still in TEMP_DIR.
C13_Witness ==
    /\ run[1].pc = "done" /\ run[2].pc = "done"
    /\ returned.done /\ env.call = 2 /\ env.launched
    /\ HasResults(returned.outcome.val)
    /\ fs # NoFiles

----------------------------------------------------------------------------
(* Order of the steps of one run (Spec).                                   *)

\* While the process of a run is running or has just terminated, the run is
\* suspended at its await and its file exists: the process is launched only
\* once the file is written, and the file outlives the process.
FileOutlivesProcess ==
    \A u \in Uuids :
        run[u].proc \in {"running", "exited"} =>
            run[u].pc = "awaiting" /\ run[u].filePath \in DOMAIN fs

\* When deleting the file threw, stdout was not interpreted: the Verdict is the
\* failure of the outer catch.
DeletedBeforeInterpreted ==
    (returned.done /\ env.launched /\ env.unlink # "ok") =>
        /\ ~HasResults(returned.outcome.val)
        /\ returned.outcome.val = Failure(Str(CleanupPrefix \o Txt(env.unlink)))

\* Every step of a run is the next one of the fixed order: validation, write
\* and launch (or an early Verdict when one of them fails); termination of the
\* process; then deletion, interpretation and the Verdict.
NextStepOf(u) ==
    \/ /\ run[u].pc = "idle" /\ run'[u].pc = "awaiting" /\ run'[u].proc = "running"
       /\ run'[u].filePath \in DOMAIN fs'
       /\ env' = env
    \/ /\ run[u].pc = "idle" /\ run'[u].pc = "done"
       /\ env'.done /\ env'.call = u /\ ~env'.launched
    \/ /\ run[u].pc = "awaiting" /\ run[u].proc = "running"
       /\ run'[u] = [run[u] EXCEPT !.proc = "exited"]
       /\ fs' = fs /\ env' = env
    \/ /\ run[u].pc = "awaiting" /\ run[u].proc = "exited" /\ run'[u].pc = "done"
       /\ env'.done /\ env'.call = u /\ env'.launched

\* A step changes a run only by its next step, produces a Verdict only for a
\* run that completes, and removes a file only when the process that ran it
\* has terminated.
StepsInOrder ==
    /\ \A u \in Uuids : run'[u] # run[u] => NextStepOf(u)
    /\ env' # env => \E u \in Uuids : run[u].pc # "done" /\ run'[u].pc = "done"
    /\ \A p \in DOMAIN fs :
        p \notin DOMAIN fs' =>
            \E u \in Uuids : run[u].filePath = p /\ run[u].proc = "exited"

\* C14: within one run the steps happen in a fixed order, each at most once:
\* validation, write of the temp file, launch, termination of the process,
\* deletion of the file, interpretation of stdout, Verdict; the process is
\* never launched before its file exists, the file is never deleted while the
\* process is running, and no Verdict is produced before the process has
\* terminated.
C14_StepsInOrder ==
    /\ [](FileOutlivesProcess /\ DeletedBeforeInterpreted)
    /\ [][StepsInOrder]_vars

\* A run has gone through every step: its process terminated, its file was
\* deleted and its Verdict carries the interpreted results.
C14_Witness ==
    /\ returned.done /\ env.launched /\ env.unlink = "ok"
    /\ run[env.call].pc = "done"
    /\ env.call \notin DOMAIN fs
    /\ HasResults(returned.outcome.val)

----------------------------------------------------------------------------
(* Shape of the Verdict.                                                   *)

\* testResults is one CaseOutcome per fixed TestCase, cases 1, 2, 3 in order,
\* each with passed true.
AllThreePassed(results) ==
    /\ results.k = "arr"
    /\ Len(results.items) = NumCases
    /\ \A i \in 1..NumCases :
        /\ results.items[i].k = "obj"
        /\ Lookup(results.items[i].props, "case") = Num(i)
        /\ FlagIsTrue(results.items[i])

\* C15: a Verdict with success = true is returned only if testResults holds
\* exactly one CaseOutcome per fixed TestCase (cases 1, 2, 3 in order), each
\* with passed true.
C15_SuccessNeedsThreePassed ==
    (gout.done /\ gout.verdict.success = TRUE) =>
        /\ HasResults(gout.verdict)
        /\ AllThreePassed(gout.verdict.testResults)

\* two_sum has an executable statement: on the definition line itself (which
\* then does not end with the colon), or on the indented lines after it.
HasStatement(code) ==
    LET lines == SplitLines(code)
        at == FunctionLineIndex(lines)
    IN  /\ at # 0
        /\ \/ ~OpensBlock(lines[at])
           \/ HasImplementation(lines, at)

\* C16: validateCode inserts the placeholder and attaches the message only
\* when two_sum has no executable statement at all: whenever it has one, on
\* indented lines after the definition or on the definition line itself, the
\* submission text is kept unchanged and no message is attached.
C16_InsertsOnlyWhenEmpty ==
    (vout.done /\ HasStatement(vin)) =>
        /\ vout.r.valid
        /\ vout.r.modifiedCode = vin
        /\ "message" \notin DOMAIN vout.r

\* The two shapes of a Verdict.
ResultShape(verdict) ==
    /\ DOMAIN verdict \in { {"success", "output", "testResults", "executionTime"},
                            {"success", "output", "testResults", "executionTime",
                             "message"} }
    /\ verdict.success \in BOOLEAN
FailureShape(verdict) ==
    /\ DOMAIN verdict = {"success", "error"}
    /\ verdict.success = FALSE

\* C17: every Verdict returned by runCode either carries testResults, output
\* and executionTime and has no error field, or has success = false with an
\* error field and no testResults; none has success = true with an error, and
\* none has both error and testResults.
C17_VerdictShapes ==
    returned.done =>
        /\ returned.outcome.ok
        /\ ResultShape(returned.outcome.val) \/ FailureShape(returned.outcome.val)
        /\ ~(HasError(returned.outcome.val) /\ HasResults(returned.outcome.val))
        /\ HasError(returned.outcome.val) => returned.outcome.val.success = FALSE

\* Verdicts of both shapes are returned: this one carries results.
C17_Witness ==
    /\ returned.done /\ returned.outcome.ok
    /\ ResultShape(returned.outcome.val)
    /\ returned.outcome.val.success = TRUE

====
